---- MODULE Spec2Model ----
(***************************************************************************)
(* State-machine model of plate_detector.py: the MainWindow object, its    *)
(* slots (button handlers, slider handlers, the QTimer callback            *)
(* update_frame, closeEvent) and the PlateDetector helpers they call.      *)
(*                                                                         *)
(* Conventions.                                                            *)
(*  - A Python value that may be None is a sequence of length 0 or 1:      *)
(*    None is <<>>, a present value x is <<x>>.                            *)
(*  - An image buffer (numpy array) is a record [src, drawn, crop]:        *)
(*    src   = <<file, index>>  where the pixels were decoded from,         *)
(*    drawn = the rectangles painted onto the buffer, in painting order,   *)
(*    crop  = <<>> for a whole frame, or the rectangle <<x, y, w, h>> the  *)
(*            buffer was sliced out of its frame with.                     *)
(*  - scale_factor is kept in hundredths (the slider's integer value);     *)
(*    the code stores value / 100.0.                                       *)
(*  - A text of a QTextEdit is a tuple whose first element is the fixed    *)
(*    part of the message and whose other elements are the formatted-in    *)
(*    values; the cleared text is <<>>.                                    *)
(*  - cv2 and Qt are external libraries.  detectMultiScale returns any     *)
(*    sequence of at most MaxPlates rectangles of at least minSize inside  *)
(*    the frame; VideoCapture(path) opens, fails to open, or raises;       *)
(*    imread decodes or returns None; a file dialog returns a path or "".  *)
(***************************************************************************)
EXTENDS Integers, Sequences, FiniteSets, TLC

\* ---- bounds of the model ----
\* frames in the longest video file
MaxFrames == 1
\* most rectangles one detectMultiScale call returns
MaxPlates == 2

\* ---- program constants ----
DefaultScaleFactor == 110
DefaultMinNeighbors == 5
\* the literals detect_plates passes (1.1 in hundredths, and 5)
DetectScaleFactor == 110
DetectMinNeighbors == 5
ScaleSliderMin == 110
ScaleSliderMax == 150
NeighborsSliderMin == 1
NeighborsSliderMax == 10
MinSize == 30

None == <<>>
Some(x) == <<x>>

\* ---- the environment: files the dialogs can return ----
DefaultVideo == "outVideo.avi"
OtherVideo == "other.mp4"
VideoFiles == {DefaultVideo, OtherVideo}
ImageFiles == {"car1.jpg"}
SaveFiles == {"out.png"}
\* number of frames a video file decodes to
NFrames(path) == IF path = DefaultVideo THEN MaxFrames ELSE 1

\* What detectMultiScale can return: n rectangles of minSize, n <= MaxPlates,
\* the i-th one at x = i * minSize, so that a rectangle tells its position
\* in the returned array.
Rect(i) == <<i * MinSize, 0, MinSize, MinSize>>
PlateSeqs == {[i \in 1..n |-> Rect(i)] : n \in 0..MaxPlates}
\* fault: the scale slider starts at 100, a scale factor of 1.0
ScaleValuesFromOne == {ScaleSliderMin - 10, ScaleSliderMax}

\* slider positions the user moves to
ScaleValues == {ScaleSliderMin, ScaleSliderMax}
NeighborValues == {NeighborsSliderMin, DefaultMinNeighbors}

VARIABLES
  detection_enabled,    \* self.detection_enabled
  scale_factor,         \* self.scale_factor * 100
  min_neighbors,        \* self.min_neighbors
  video_path,           \* self.video_path
  cap,                  \* self.cap: None or a VideoCapture [path, opened, pos]
  timer,                \* self.timer.isActive()
  current_frame,        \* self.current_frame: None or an image buffer
  current_plates,       \* self.current_plates
  current_plate_imgs,   \* self.current_plate_imgs
  image_label,          \* pixmap of self.image_label: None or the buffer shown
  video_label,          \* pixmap of self.video_label
  image_plate_list,     \* thumbnails of self.image_plate_list, in order
  video_plate_list,     \* thumbnails of self.video_plate_list, in order
  image_text_display,   \* text of self.image_text_display
  video_text_display,   \* text of self.video_text_display
  closed,               \* the window was closed (closeEvent accepted)
  last                  \* what the most recent slot invocation did besides
                        \* changing the fields above

vars == <<detection_enabled, scale_factor, min_neighbors, video_path, cap, timer,
          current_frame, current_plates, current_plate_imgs, image_label,
          video_label, image_plate_list, video_plate_list, image_text_display,
          video_text_display, closed, last>>

paramVars == <<scale_factor, min_neighbors>>
imageVars == <<current_frame, image_label, image_plate_list, image_text_display>>
videoVars == <<video_path, cap, timer, current_plates, current_plate_imgs,
               video_label, video_plate_list, video_text_display>>

\* every field of the window, without the record of the last invocation
stateVars == <<detection_enabled, paramVars, imageVars, videoVars, closed>>

\* What a slot invocation did that no field of the window keeps:
\*   msg        the text of the QMessageBox it showed, or ""
\*   err        an exception left the slot unhandled
\*   call       the <<scaleFactor, minNeighbors>> it passed to detectMultiScale,
\*              or None
\*   plates     the rectangles that call returned
\*   read       outcome of cap.read(): "" (no read), "eof" or "frame"
\*   count      video_plate_list.count() when line 363 compared it, or None
\*   saveDialog it showed QFileDialog.getSaveFileName
\*   wrote      the <<file, pixmap>> it wrote to disk, or None
Quiet == [msg |-> "", err |-> FALSE, call |-> None, plates |-> <<>>, read |-> "",
          count |-> None, saveDialog |-> FALSE, wrote |-> None]

\* ---- PlateDetector ----

\* the arguments detect_plates passes to detectMultiScale
detect_plates_args == <<DetectScaleFactor, DetectMinNeighbors>>

\* draw_plates: a copy of frame with the rectangles painted on
draw_plates(frame, plates) == [frame EXCEPT !.drawn = @ \o plates]

\* extract_plate_regions: frame[y:y+h, x:x+w] for each rectangle, in order
extract_plate_regions(frame, plates) ==
  [i \in 1..Len(plates) |-> [frame EXCEPT !.crop = plates[i]]]

\* ---- MainWindow helpers ----

\* cv_img.size == 0
IsEmptyImage(img) == img.crop # <<>> /\ (img.crop[3] = 0 \/ img.crop[4] = 0)

\* convert_cv_to_pixmap: None for an empty buffer, else the pixmap of the buffer
convert_cv_to_pixmap(cv_img) == IF IsEmptyImage(cv_img) THEN None ELSE Some(cv_img)

\* the loop "for img in regions: thumbnail = convert(img); if thumbnail: addItem"
RECURSIVE AddThumbnails(_, _)
AddThumbnails(list, regions) ==
  IF regions = <<>> THEN list
  ELSE LET thumbnail == convert_cv_to_pixmap(Head(regions))
       IN AddThumbnails(IF thumbnail # None THEN list \o thumbnail ELSE list,
                        Tail(regions))

\* fault: the label keeps the pixmap it had
display_image_keeps(image, label) == label

\* display_image / display_frame: the label's pixmap after showing image on it
display_image(image, label) ==
  LET pixmap == convert_cv_to_pixmap(image)
  IN IF pixmap # None THEN pixmap ELSE label

\* cv2.imread / cap.read + cv2.resize: a freshly decoded whole frame
Decoded(file, idx) == [src |-> <<file, idx>>, drawn |-> <<>>, crop |-> <<>>]

\* self.cap is None or not self.cap.isOpened()
CapNotOpen == cap = None \/ ~cap[1].opened

\* fault: the result of isOpened() is not looked at
OpenFailedIgnored(c) == FALSE

\* fault: the test is inverted
OpenFailedInverted(c) == c.opened

\* "if not self.cap.isOpened()" on the capture start_video just created
OpenFailed(c) == ~c.opened

\* fault: one read past the last frame still yields a frame
ReadOkPastEnd(c) == c.pos <= NFrames(c.path)

\* ret of self.cap.read(): a frame is decoded while the position is inside the file
ReadOk(c) == c.pos < NFrames(c.path)

\* fault: the stream is left at its end
RewindStay(c) == c

\* self.cap.set(cv2.CAP_PROP_POS_FRAMES, 0)
Rewind(c) == [c EXCEPT !.pos = 0]

\* fault: the guard looks at the other tab's label
NoPixmapWrongLabel == video_label = None

\* self.image_label.pixmap() is None
NoPixmap == image_label = None

\* fault: the list is not cleared
ResetImageListKeeps(list) == list

\* self.image_plate_list.clear() at the head of the thumbnail update of process_image
ResetImageList(list) == <<>>

\* fault: the slice starts at 0
NewRegionsFromStart(imgs, count) == imgs

\* the slice update_frame appends: current_plate_imgs[video_plate_list.count():]
NewRegions(imgs, count) == SubSeq(imgs, count + 1, Len(imgs))

\* fault: the failure is announced as a load
LoadErrorTextAsLoaded(file_path) == <<"Loaded image", file_path>>

\* the status text load_image sets when imread returned None
LoadErrorText(file_path) == <<"Error loading image", file_path>>

\* fault: the handle is left open
ReleaseForgotten(c) == c

\* self.cap.release()
Release(c) == [c EXCEPT !.opened = FALSE]

\* ---- construction ----

Init ==
  /\ detection_enabled \in BOOLEAN
  /\ scale_factor = DefaultScaleFactor
  /\ min_neighbors = DefaultMinNeighbors
  /\ video_path = DefaultVideo
  /\ cap = None
  /\ timer = FALSE
  /\ current_frame = None
  /\ current_plates = <<>>
  /\ current_plate_imgs = <<>>
  /\ image_label = None
  /\ video_label = None
  /\ image_plate_list = <<>>
  /\ video_plate_list = <<>>
  /\ image_text_display = <<>>
  /\ video_text_display = <<>>
  /\ closed = FALSE
  /\ last = [Quiet EXCEPT !.msg = IF detection_enabled THEN ""
                                ELSE "Failed to initialize plate detector"]

\* ---- slots ----

update_scale_factor ==
  /\ ~closed
  /\ \E value \in ScaleValues :
       \* valueChanged is emitted when the slider's value changes
       /\ value # scale_factor
       /\ scale_factor' = value
       /\ image_text_display' = <<"Scale Factor, Min Neighbors", value, min_neighbors>>
  /\ last' = Quiet
  /\ UNCHANGED <<detection_enabled, min_neighbors, current_frame, image_label,
                 image_plate_list, videoVars, closed>>

update_min_neighbors ==
  /\ ~closed
  /\ \E value \in NeighborValues :
       /\ value # min_neighbors
       /\ min_neighbors' = value
       /\ image_text_display' = <<"Scale Factor, Min Neighbors", scale_factor, value>>
  /\ last' = Quiet
  /\ UNCHANGED <<detection_enabled, scale_factor, current_frame, image_label,
                 image_plate_list, videoVars, closed>>

load_video ==
  /\ ~closed
  /\ \E file_path \in VideoFiles \cup {""} :
       IF file_path # ""
       THEN \* video_path, setText, then stop_video() and clear_video_results()
            /\ video_path' = file_path
            /\ timer' = FALSE
            /\ video_plate_list' = <<>>
            /\ video_text_display' = <<>>
            /\ current_plates' = <<>>
            /\ current_plate_imgs' = <<>>
            /\ UNCHANGED <<cap, video_label>>
       ELSE UNCHANGED videoVars
  /\ last' = Quiet
  /\ UNCHANGED <<detection_enabled, paramVars, imageVars, closed>>

clear_image_results ==
  /\ ~closed
  /\ image_plate_list' = <<>>
  /\ image_label' = IF current_frame # None
                    THEN display_image(current_frame[1], image_label)
                    ELSE image_label
  /\ last' = Quiet
  /\ UNCHANGED <<detection_enabled, paramVars, current_frame, image_text_display,
                 videoVars, closed>>

\* load_image once the dialog returned file_path and imread decoded it or not
load_image_from(file_path, decodes) ==
  IF file_path # "" /\ decodes
  THEN \* display_image, setText, then clear_image_results()
       LET img == Decoded(file_path, 0)
       IN /\ current_frame' = Some(img)
          /\ image_label' = display_image(img, display_image(img, image_label))
          /\ image_text_display' = <<"Loaded image", file_path>>
          /\ image_plate_list' = <<>>
  ELSE IF file_path # ""
  THEN /\ image_text_display' = LoadErrorText(file_path)
       /\ UNCHANGED <<current_frame, image_label, image_plate_list>>
  ELSE UNCHANGED imageVars

load_image ==
  /\ ~closed
  /\ \E file_path \in ImageFiles \cup {""}, decodes \in BOOLEAN :
       load_image_from(file_path, decodes)
  /\ last' = Quiet
  /\ UNCHANGED <<detection_enabled, paramVars, videoVars, closed>>

process_image ==
  /\ ~closed
  /\ IF current_frame = None
     THEN /\ last' = [Quiet EXCEPT !.msg = "Please load an image first"]
          /\ UNCHANGED imageVars
     ELSE IF ~detection_enabled
     THEN \* __init__ never assigned self.detector: line 259 raises AttributeError
          /\ last' = [Quiet EXCEPT !.err = TRUE]
          /\ UNCHANGED imageVars
     ELSE \E plates \in PlateSeqs :
          LET img == current_frame[1]
              plate_regions == extract_plate_regions(img, plates)
              result_img == draw_plates(img, plates)
          IN /\ image_label' = display_image(result_img, image_label)
             /\ image_text_display' = <<"Detected license plates", Len(plates)>>
             /\ image_plate_list' =
                  AddThumbnails(ResetImageList(image_plate_list), plate_regions)
             /\ last' = [Quiet EXCEPT
                           !.call = Some(<<scale_factor, min_neighbors>>),
                           !.plates = plates]
             /\ UNCHANGED current_frame
  /\ UNCHANGED <<detection_enabled, paramVars, videoVars, closed>>

save_result ==
  /\ ~closed
  /\ IF NoPixmap
     THEN /\ last' = [Quiet EXCEPT !.msg = "No image to save"]
          /\ UNCHANGED image_text_display
     ELSE \E file_path \in SaveFiles \cup {""} :
          IF file_path # ""
          THEN /\ last' = [Quiet EXCEPT
                             !.saveDialog = TRUE,
                             !.wrote = Some(<<file_path, image_label>>)]
               /\ image_text_display' = <<"Image saved as", file_path>>
          ELSE /\ last' = [Quiet EXCEPT !.saveDialog = TRUE]
               /\ UNCHANGED image_text_display
  /\ UNCHANGED <<detection_enabled, paramVars, current_frame, image_label,
                 image_plate_list, videoVars, closed>>

start_video ==
  /\ ~closed
  /\ IF CapNotOpen
     THEN \E outcome \in {"opened", "not opened", "raised"} :
          IF outcome = "raised"
          THEN \* cv2.VideoCapture raised: self.cap is not assigned
               /\ last' = [Quiet EXCEPT !.msg = "Error opening video"]
               /\ UNCHANGED <<cap, timer, video_text_display>>
          ELSE LET c == [path |-> video_path, opened |-> outcome = "opened", pos |-> 0]
               IN /\ cap' = Some(c)
                  /\ IF OpenFailed(c)
                     THEN /\ last' = [Quiet EXCEPT !.msg = "Failed to open video file"]
                          /\ UNCHANGED <<timer, video_text_display>>
                     ELSE /\ timer' = TRUE
                          /\ video_text_display' = <<"Video playing...">>
                          /\ last' = Quiet
     ELSE /\ timer' = TRUE
          /\ video_text_display' = <<"Video playing...">>
          /\ last' = Quiet
          /\ UNCHANGED cap
  /\ UNCHANGED <<detection_enabled, paramVars, imageVars, video_path, current_plates,
                 current_plate_imgs, video_label, video_plate_list, closed>>

stop_video ==
  /\ ~closed
  /\ timer' = FALSE
  /\ video_text_display' = <<"Video stopped">>
  /\ last' = Quiet
  /\ UNCHANGED <<detection_enabled, paramVars, imageVars, video_path, cap,
                 current_plates, current_plate_imgs, video_label, video_plate_list,
                 closed>>

\* fault: the image tab's list is cleared as well
clear_video_results_both_lists ==
  /\ ~closed
  /\ video_plate_list' = <<>>
  /\ image_plate_list' = <<>>
  /\ video_text_display' = <<>>
  /\ current_plates' = <<>>
  /\ current_plate_imgs' = <<>>
  /\ last' = Quiet
  /\ UNCHANGED <<detection_enabled, paramVars, current_frame, image_label,
                 image_text_display, video_path, cap, timer, video_label, closed>>

clear_video_results ==
  /\ ~closed
  /\ video_plate_list' = <<>>
  /\ video_text_display' = <<>>
  /\ current_plates' = <<>>
  /\ current_plate_imgs' = <<>>
  /\ last' = Quiet
  /\ UNCHANGED <<detection_enabled, paramVars, imageVars, video_path, cap, timer,
                 video_label, closed>>

\* the QTimer's timeout callback: it runs while the timer is active, and only then
update_frame ==
  /\ timer
  /\ IF CapNotOpen
     THEN /\ last' = Quiet
          /\ UNCHANGED videoVars
     ELSE IF ~ReadOk(cap[1])
     THEN \* ret is False: seek and return
          /\ cap' = Some(Rewind(cap[1]))
          /\ last' = [Quiet EXCEPT !.read = "eof"]
          /\ UNCHANGED <<video_path, timer, current_plates, current_plate_imgs,
                         video_label, video_plate_list, video_text_display>>
     ELSE LET frame == Decoded(cap[1].path, cap[1].pos)
          IN /\ cap' = Some([cap[1] EXCEPT !.pos = @ + 1])
             /\ IF detection_enabled
                THEN \E plates \in PlateSeqs :
                     LET imgs == extract_plate_regions(frame, plates)
                         count == Len(video_plate_list)
                     IN /\ current_plates' = plates
                        /\ current_plate_imgs' = imgs
                        /\ video_text_display' = <<"Detected license plates", Len(plates)>>
                        /\ video_plate_list' =
                             IF Len(imgs) > count
                             THEN AddThumbnails(video_plate_list, NewRegions(imgs, count))
                             ELSE video_plate_list
                        /\ video_label' = display_image(draw_plates(frame, plates), video_label)
                        /\ last' = [Quiet EXCEPT
                                      !.read = "frame",
                                      !.call = Some(detect_plates_args),
                                      !.plates = plates,
                                      !.count = Some(count)]
                ELSE /\ video_label' = display_image(frame, video_label)
                     /\ last' = [Quiet EXCEPT !.read = "frame"]
                     /\ UNCHANGED <<current_plates, current_plate_imgs,
                                    video_plate_list, video_text_display>>
             /\ UNCHANGED <<video_path, timer>>
  /\ UNCHANGED <<detection_enabled, paramVars, imageVars, closed>>

\* closing the window: the user can press nothing afterwards
closeEvent ==
  /\ ~closed
  /\ timer' = FALSE
  /\ cap' = IF cap # None THEN Some(Release(cap[1])) ELSE cap
  /\ closed' = TRUE
  /\ last' = Quiet
  /\ UNCHANGED <<detection_enabled, paramVars, imageVars, video_path, current_plates,
                 current_plate_imgs, video_label, video_plate_list, video_text_display>>

Next ==
  \/ update_scale_factor
  \/ update_min_neighbors
  \/ load_video
  \/ load_image
  \/ process_image
  \/ save_result
  \/ start_video
  \/ stop_video
  \/ clear_video_results
  \/ clear_image_results
  \/ update_frame
  \/ closeEvent

Spec == Init /\ [][Next]_vars

\* ---- properties ----

\* C1: video looping.  On a tick of an open stream whose read fails because the
\* stream is exhausted, update_frame seeks back to frame 0 and leaves the timer
\* running and the handle open; the tick after that one reads frame 0 again.
\* No tick ever stops the timer.
C1_VideoLoops ==
  [][(update_frame /\ ~CapNotOpen) =>
       /\ timer'
       /\ cap' # None /\ cap'[1].opened /\ cap'[1].path = cap[1].path
       /\ (cap[1].pos >= NFrames(cap[1].path) => cap'[1].pos = 0)
       /\ (last.read = "eof" =>
             /\ last'.read = "frame"
             /\ video_label' # None
             /\ video_label'[1].src = <<cap[1].path, 0>>)]_vars

\* the state right after an end-of-stream tick of a playing video that had
\* shown a frame
C1_Witness ==
  /\ last.read = "eof"
  /\ timer
  /\ cap # None /\ cap[1].opened /\ cap[1].pos = 0
  /\ video_label # None

\* C2 (as claimed): when the cascade failed to load, no slot invocation calls
\* the detector and none ends with an unhandled exception.
C2_DisabledDetectionStaysUsable ==
  ~detection_enabled => (last.call = None /\ ~last.err)

\* C3 (as claimed): right after stop_video the timer is inactive and no decode
\* handle is open.
C3_StopReleasesHandle ==
  [][stop_video => (~timer' /\ (cap' = None \/ ~cap'[1].opened))]_vars

\* C4 (as claimed): every call of the detector, from the still-image pass and
\* from a video tick, passes the current scale_factor and min_neighbors.
C4_DetectorReadsCurrentParameters ==
  last.call # None => last.call[1] = <<scale_factor, min_neighbors>>

\* C5: clearing results.  clear_image_results empties the image thumbnail list
\* and, with an image loaded, leaves the display showing current_frame, which
\* carries no drawn rectangle; clear_video_results empties the video thumbnail
\* list, current_plates and current_plate_imgs; no detection pass (still image
\* or video tick) changes current_frame.
C5_ClearResults ==
  [][/\ clear_image_results =>
          /\ image_plate_list' = <<>>
          /\ current_frame # None =>
               /\ image_label' = current_frame
               /\ current_frame[1].drawn = <<>>
               /\ current_frame[1].crop = <<>>
     /\ clear_video_results =>
          /\ video_plate_list' = <<>>
          /\ current_plates' = <<>>
          /\ current_plate_imgs' = <<>>
     /\ current_frame' # current_frame => ~(process_image \/ update_frame)]_vars

\* the image tab after a clear that followed a pass with at least one plate:
\* the text still tells of the pass, the list is empty, the display is unannotated
C5_Witness ==
  /\ current_frame # None
  /\ image_label = current_frame
  /\ image_plate_list = <<>>
  /\ Len(image_text_display) = 2
  /\ image_text_display[1] = "Detected license plates"
  /\ image_text_display[2] > 0

\* C6: video thumbnail tracking.  On a tick that yields a frame with detection
\* enabled, with k thumbnails displayed and n regions detected, the list becomes
\* the old list followed by the regions k+1..n of this frame (1-based), in
\* order, when n > k, and is unchanged when n <= k.  No tick shortens the list,
\* and only clear_video_results or load_video ever does.
C6_VideoThumbnailTracking ==
  [][/\ (update_frame /\ last'.read = "frame" /\ detection_enabled) =>
          LET k == Len(video_plate_list)
              n == Len(current_plates')
              region(i) == [src |-> <<cap[1].path, cap[1].pos>>, drawn |-> <<>>,
                            crop |-> current_plates'[i]]
          IN /\ last'.count = Some(k)
             /\ current_plates' = last'.plates
             /\ video_plate_list' =
                  IF n > k
                  THEN video_plate_list \o [j \in 1..(n - k) |-> region(k + j)]
                  ELSE video_plate_list
     /\ Len(video_plate_list') < Len(video_plate_list) => ~update_frame
     /\ Len(video_plate_list') < Len(video_plate_list) =>
          (clear_video_results \/ load_video)]_vars

\* a tick found one thumbnail displayed and two regions in its frame
C6_Witness ==
  /\ last.read = "frame"
  /\ last.count = Some(1)
  /\ Len(last.plates) = 2
  /\ Len(video_plate_list) = 2

\* C7: the tick whose read reports end-of-stream only seeks to frame 0: it
\* shows no message, calls no detector, and leaves the display, the thumbnail
\* list, current_plates, current_plate_imgs, the status text and everything
\* else as they were.  Every other tick of an open stream reads exactly one
\* frame, the one at the stream's position, and displays it.
C7_EndOfStreamTickDropped ==
  [][(update_frame /\ ~CapNotOpen) =>
       IF cap[1].pos >= NFrames(cap[1].path)
       THEN /\ last' = [Quiet EXCEPT !.read = "eof"]
            /\ cap' = Some([path |-> cap[1].path, opened |-> TRUE, pos |-> 0])
            /\ UNCHANGED <<detection_enabled, paramVars, imageVars, closed,
                           video_path, timer, current_plates, current_plate_imgs,
                           video_label, video_plate_list, video_text_display>>
       ELSE /\ last'.read = "frame"
            /\ cap'[1].pos = cap[1].pos + 1
            /\ video_label' # None
            /\ video_label'[1].src = <<cap[1].path, cap[1].pos>>
            /\ (last'.call # None) = detection_enabled]_vars

\* right after an end-of-stream tick, the results of the frame before it are
\* still on display
C7_Witness ==
  /\ last.read = "eof"
  /\ Len(video_text_display) = 2
  /\ video_text_display[1] = "Detected license plates"
  /\ video_plate_list # <<>>
  /\ current_plates # <<>>

\* C8: video-open failure.  A start_video that finds no open handle and leaves
\* none open shows a message, leaves the timer stopped and the status text as
\* it was; and from any state without an open handle no step reads a frame,
\* nor leaves the timer running unless it opened the handle.
C8_OpenFailureDoesNotStart ==
  [][/\ (start_video /\ CapNotOpen /\ (cap' = None \/ ~cap'[1].opened)) =>
          /\ last'.msg \in {"Failed to open video file", "Error opening video"}
          /\ ~timer /\ ~timer'
          /\ video_text_display' = video_text_display
     /\ CapNotOpen =>
          /\ last'.read = ""
          /\ timer' => (cap' # None /\ cap'[1].opened)]_vars

\* right after a Play whose VideoCapture did not open
C8_Witness ==
  /\ last.msg = "Failed to open video file"
  /\ cap # None /\ ~cap[1].opened
  /\ ~timer

\* C9: a still-image detection pass resets the thumbnail list: after a pass
\* that called the detector, the image thumbnail list holds exactly the crop of
\* the loaded image at each returned rectangle, in the order returned.
C9_ImagePassResetsThumbnails ==
  [][(process_image /\ last'.call # None) =>
       /\ current_frame # None
       /\ image_plate_list' =
            [i \in 1..Len(last'.plates) |->
               [src |-> current_frame[1].src, drawn |-> <<>>,
                crop |-> last'.plates[i]]]]_vars

\* right after a pass, run with changed parameters, that returned one rectangle
C9_Witness ==
  /\ last.call = Some(<<ScaleSliderMax, NeighborsSliderMin>>)
  /\ last.read = ""
  /\ Len(last.plates) = 1
  /\ Len(image_plate_list) = 1

\* C10: saving with no image loaded.  When no image was ever loaded
\* (current_frame is None), save_result shows the warning "No image to save",
\* shows no save dialog, writes no file and changes no field of the window.
C10_SaveWithoutImage ==
  [][(save_result /\ current_frame = None) =>
       /\ last' = [Quiet EXCEPT !.msg = "No image to save"]
       /\ UNCHANGED stateVars]_vars

\* right after such a save, following a failed image load and video playback
C10_Witness ==
  /\ last.msg = "No image to save"
  /\ current_frame = None
  /\ Len(image_text_display) = 2
  /\ image_text_display[1] = "Error loading image"
  /\ video_label # None

\* C11: image-load failure.  When the file chosen in load_image does not
\* decode, the image status text becomes the error message for that file, no
\* exception leaves the slot, no message box is shown, and current_frame, the
\* displayed image and the image thumbnail list stay as they were.
C11_LoadFailureReportedInline ==
  [][\A f \in ImageFiles :
       (load_image /\ load_image_from(f, FALSE)) =>
         /\ image_text_display' = <<"Error loading image", f>>
         /\ UNCHANGED <<current_frame, image_label, image_plate_list>>
         /\ ~last'.err
         /\ last'.msg = ""]_vars

\* a failed load after a detection pass: the annotated display and the
\* thumbnails of the pass are still there under the error text
C11_Witness ==
  /\ Len(image_text_display) = 2
  /\ image_text_display[1] = "Error loading image"
  /\ current_frame # None
  /\ image_label # current_frame
  /\ image_plate_list # <<>>

\* C12: shutdown.  Once the window is closed the timer is inactive, no decode
\* handle is open, and no frame has been read since.
C12_ShutdownTearsDown ==
  closed => (~timer /\ (cap = None \/ ~cap[1].opened) /\ last.read = "")

\* the window was closed while a video was playing
C12_Witness ==
  /\ closed
  /\ cap # None
  /\ Len(video_text_display) >= 1
  /\ video_text_display[1] \in {"Video playing...", "Detected license plates"}
  /\ video_label # None

\* C13: detection-parameter range.  In every reachable state the scale factor
\* is above 1.0 (in hundredths: within 110..150) and min_neighbors is an
\* integer within 1..10.
C13_ParameterRange ==
  /\ scale_factor \in ScaleSliderMin..ScaleSliderMax
  /\ scale_factor > 100
  /\ min_neighbors \in NeighborsSliderMin..NeighborsSliderMax
  /\ min_neighbors >= 1

\* both sliders were moved: the scale to its top, the neighbors to their bottom
C13_Witness ==
  /\ scale_factor = ScaleSliderMax
  /\ min_neighbors = NeighborsSliderMin
  /\ image_text_display =
       <<"Scale Factor, Min Neighbors", ScaleSliderMax, NeighborsSliderMin>>

\* C14 (as claimed): whenever the decode handle is open it was opened on the
\* current video_path, and a frame a tick displays comes from that file.
C14_FramesFromSelectedVideo ==
  /\ (cap # None /\ cap[1].opened) => cap[1].path = video_path
  /\ (last.read = "frame" /\ video_label # None) => video_label[1].src[1] = video_path

\* C15: the timer is active only while a decode handle is open, so a tick never
\* takes the early return at the head of update_frame.
C15_TimerOnlyWithOpenHandle ==
  timer => (cap # None /\ cap[1].opened)

\* a tick of a running timer read a frame from the open handle
C15_Witness ==
  /\ timer
  /\ cap # None /\ cap[1].opened /\ cap[1].pos > 0
  /\ last.read = "frame"

\* C16: the two modes do not interfere.  A step of a video-tab operation
\* (load_video, start_video, stop_video, clear_video_results, a tick) leaves
\* current_frame, the image display, the image thumbnail list and the image
\* status text unchanged; a step of an image-tab operation (load_image,
\* process_image, clear_image_results, save_result) leaves the decode handle,
\* the timer, current_plates, current_plate_imgs and the video thumbnail list
\* unchanged.
C16_ModesDoNotInterfere ==
  [][/\ imageVars' # imageVars =>
          ~(load_video \/ start_video \/ stop_video \/ clear_video_results
              \/ update_frame)
     /\ <<cap, timer, current_plates, current_plate_imgs, video_plate_list>>'
          # <<cap, timer, current_plates, current_plate_imgs, video_plate_list>> =>
          ~(load_image \/ process_image \/ clear_image_results \/ save_result)]_vars

\* a tick of a playing video with thumbnails, while the image tab shows the
\* annotated result and the thumbnails of a detection pass
C16_Witness ==
  /\ timer
  /\ last.read = "frame"
  /\ video_plate_list # <<>>
  /\ current_frame # None
  /\ image_label # current_frame
  /\ image_plate_list # <<>>

====
